---------------------------- MODULE Spec2Model ----------------------------
(***************************************************************************)
(* A model of src/data/dataloader.py: the ParallelDataset that encodes a   *)
(* pair of text lines with two vocabularies, parallel_collate_fn that      *)
(* sorts and pads a mini-batch, and the two loader factories that wire the *)
(* dataset to torch's DataLoader, with a DistributedSampler for training.  *)
(*                                                                         *)
(* Text is a sequence of one-character strings; a vocabulary (word2id) is  *)
(* a list of tokens, and the id of a token is its 0-based position in it.  *)
(* A tensor is the sequence of its values; a 2-D tensor is a sequence of   *)
(* rows.  A call that raises is modelled by the exception's name in place  *)
(* of the value.                                                           *)
(***************************************************************************)
EXTENDS Integers, Sequences, FiniteSets, TLC

VARIABLES
    sequence,   \* preprocess: the line handed to the call under study
    word2id,    \* preprocess: the vocabulary handed to it
    encoded,    \* preprocess: what the call returned (NotCalled before it)
    given,      \* parallel_collate_fn: the list as it was handed to the call (history)
    data,       \* parallel_collate_fn: the list handed to the call (sorted in place)
    collated,   \* parallel_collate_fn: what the call returned (NotCalled before it)
    PAD_WORD,   \* the module's global pad id
    loader,     \* loader name -> NoLoader, or the DataLoader a factory returned
    iterator,   \* loader name -> NoIter, or the state of iter(data_loader)
    pass,       \* loader name -> what the current iterator has done (history)
    prevpass,   \* loader name -> the same for the iterator before it
    epochCalls, \* loader name -> number of sampler.set_epoch calls so far (history)
    randperm,   \* <<n, seed>> -> the permutation torch.randperm drew for it
    torchLegacy, \* whether the torch build is one from before 1.6
    sampler,    \* rank -> the DistributedSampler of that rank's process
    indices     \* rank -> NotCalled, or list(iter(sampler)) of that rank

vars == <<sequence, word2id, encoded, given, data, collated, PAD_WORD, loader, iterator,
          pass, prevpass, epochCalls, randperm, torchLegacy, sampler, indices>>

encodeVars == <<sequence, word2id, encoded>>
collateVars == <<given, data, collated>>
loaderVars == <<loader, iterator, pass, prevpass, epochCalls>>
partitionVars == <<sampler, indices>>

-----------------------------------------------------------------------------
(* Bounds of the model.                                                    *)

MaxLineLen == 4     \* characters of a line handed to preprocess
MaxBatch == 3       \* pairs handed to parallel_collate_fn; largest batch_size
MaxLines == 3       \* lines of a corpus file
MaxWorld == 3       \* largest world_size
MaxEpoch == 1       \* largest epoch handed to set_epoch
MaxEpochCalls == 2  \* set_epoch calls on one sampler
MaxDataset == 4     \* largest dataset a DistributedSampler is built over
MaxTrainLines == 2  \* lines of a corpus file of a training loader

-----------------------------------------------------------------------------
(* Values.                                                                 *)

(* What a call did: it returned a value, or it raised.  NotCalled stands   *)
(* where no call has been made yet.                                        *)
ValueError == "ValueError"
IndexError == "IndexError"

NotCalled == [exc |-> "NotCalled"]
Return(v) == [exc |-> "None", value |-> v]
Raise(e) == [exc |-> e]
Returned(r) == r.exc = "None"
Raised(r) == r.exc \in {ValueError, IndexError}

NoLoader == [kind |-> "NoLoader"]
NoIter == [kind |-> "NoIter", started |-> FALSE, rest |-> <<>>]
NoPass == [kind |-> "NoPass", stamp |-> -1, steps |-> <<>>, done |-> FALSE]

Min(S) == CHOOSE m \in S : \A k \in S : m <= k
Max(S) == CHOOSE m \in S : \A k \in S : m >= k

SeqsUpTo(S, n) == UNION {[1..k -> S] : k \in 0..n}

RECURSIVE Concat(_)
Concat(ss) == IF ss = <<>> THEN <<>> ELSE Head(ss) \o Concat(Tail(ss))

(* The reserved tokens and the tokens of the example vocabulary.           *)
PAD == <<"<", "p", "a", "d", ">">>
BOS == <<"<", "s", ">">>
EOS == <<"<", "/", "s", ">">>

-----------------------------------------------------------------------------
(* Python and torch primitives the module uses.                            *)

(* str.split() with no argument: the maximal runs of non-whitespace.       *)
Whitespace == {" ", "\t"}

RECURSIVE SplitFrom(_, _, _, _)
SplitFrom(s, i, cur, toks) ==
    IF i > Len(s)
    THEN IF cur = <<>> THEN toks ELSE Append(toks, cur)
    ELSE IF s[i] \in Whitespace
         THEN SplitFrom(s, i + 1, <<>>, IF cur = <<>> THEN toks ELSE Append(toks, cur))
         ELSE SplitFrom(s, i + 1, Append(cur, s[i]), toks)

Split(s) == SplitFrom(s, 1, <<>>, <<>>)

(* str.splitlines(): a line ends at each line break; what follows the last *)
(* break is a line only when it is not empty.  "\n" is the one line break  *)
(* of the texts here.                                                      *)
RECURSIVE SplitLinesFrom(_, _, _, _)
SplitLinesFrom(s, i, cur, lines) ==
    IF i > Len(s)
    THEN IF cur = <<>> THEN lines ELSE Append(lines, cur)
    ELSE IF s[i] = "\n"
         THEN SplitLinesFrom(s, i + 1, <<>>, Append(lines, cur))
         ELSE SplitLinesFrom(s, i + 1, Append(cur, s[i]), lines)

SplitLines(s) == SplitLinesFrom(s, 1, <<>>, <<>>)

(* list.index(x): the 0-based position of the first element equal to x;    *)
(* ValueError when there is none.                                          *)
Has(list, x) == \E i \in 1..Len(list) : list[i] = x

Index(list, x) ==
    IF Has(list, x)
    THEN Return(Min({i \in 1..Len(list) : list[i] = x}) - 1)
    ELSE Raise(ValueError)

(* torch.Tensor(list of ints): a float32 tensor.  A float32 holds 24       *)
(* significant bits; a larger integer is rounded to the nearest            *)
(* representable one, ties to the even significand.                        *)
MantissaBits == 24

RECURSIVE Quantum(_, _)
Quantum(n, q) == IF n \div q < 2 ^ MantissaBits THEN q ELSE Quantum(n, 2 * q)

Float32(n) ==
    LET q == Quantum(n, 1)
        lo == (n \div q) * q
        r == n - lo
    IN  IF 2 * r < q THEN lo
        ELSE IF 2 * r > q THEN lo + q
        ELSE IF (lo \div q) % 2 = 0 THEN lo ELSE lo + q

Tensor(list) == [i \in 1..Len(list) |-> Float32(list[i])]

(* Assigning a float32 value into a long tensor truncates it toward zero;  *)
(* the values here are whole numbers, so the value is kept.                *)
ToLong(v) == v

-----------------------------------------------------------------------------
(* class ParallelDataset                                                   *)

(* ParallelDataset.preprocess(sequence, word2id): <s>, the id of every     *)
(* token of the line, </s>, as a float tensor; a failed lookup raises out  *)
(* of the call.                                                            *)

(* Variant: a token the vocabulary lacks is left out.                      *)
preprocessSkipUnknown(line, vocab) ==
    LET tokens == SelectSeq(Split(line), LAMBDA t : Has(vocab, t))
        looked == <<Index(vocab, BOS)>> \o [i \in 1..Len(tokens) |-> Index(vocab, tokens[i])]
                    \o <<Index(vocab, EOS)>>
    IN  IF \E i \in 1..Len(looked) : Raised(looked[i])
        THEN Raise(ValueError)
        ELSE Return(Tensor([i \in 1..Len(looked) |-> looked[i].value]))

(* Variant: </s> is not appended.                                          *)
preprocessNoEnd(line, vocab) ==
    LET tokens == Split(line)
        looked == <<Index(vocab, BOS)>> \o [i \in 1..Len(tokens) |-> Index(vocab, tokens[i])]
    IN  IF \E i \in 1..Len(looked) : Raised(looked[i])
        THEN Raise(ValueError)
        ELSE Return(Tensor([i \in 1..Len(looked) |-> looked[i].value]))

preprocess(line, vocab) ==
    LET tokens == Split(line)
        looked == <<Index(vocab, BOS)>> \o [i \in 1..Len(tokens) |-> Index(vocab, tokens[i])]
                    \o <<Index(vocab, EOS)>>
    IN  IF \E i \in 1..Len(looked) : Raised(looked[i])
        THEN Raise(ValueError)
        ELSE Return(Tensor([i \in 1..Len(looked) |-> looked[i].value]))

(* ParallelDataset.__init__: both files are read and split into lines; the *)
(* length is the number of source lines; the pad id is looked up in the    *)
(* source vocabulary.  src_text and trg_text are what open(path).read()    *)
(* returns for the two paths.                                              *)
ParallelDataset(src_text, trg_text, src_word2id, trg_word2id) ==
    LET src_lines == SplitLines(src_text)
        trg_lines == SplitLines(trg_text)
        pad == Index(src_word2id, PAD)
    IN  IF Raised(pad) THEN pad
        ELSE Return([src_seqs |-> src_lines,
                     trg_seqs |-> trg_lines,
                     num_total_seqs |-> Len(src_lines),
                     src_word2id |-> src_word2id,
                     trg_word2id |-> trg_word2id,
                     pad_index |-> pad.value])

(* list[index] for an index >= 0.                                          *)
At(list, index) == IF index < Len(list) THEN Return(list[index + 1]) ELSE Raise(IndexError)

(* ParallelDataset.__getitem__: the two lines at the index, each encoded   *)
(* with its own vocabulary; the first failing statement raises.            *)

(* Variant: encoding leaves out the tokens the vocabulary lacks.           *)
__getitem__SkipUnknown(ds, index) ==
    LET src_line == At(ds.src_seqs, index)
        trg_line == At(ds.trg_seqs, index)
    IN  IF Raised(src_line) THEN src_line
        ELSE IF Raised(trg_line) THEN trg_line
        ELSE LET src_seq == preprocessSkipUnknown(src_line.value, ds.src_word2id)
                 trg_seq == preprocessSkipUnknown(trg_line.value, ds.trg_word2id)
             IN  IF Raised(src_seq) THEN src_seq
                 ELSE IF Raised(trg_seq) THEN trg_seq
                 ELSE Return(<<src_seq.value, trg_seq.value>>)

__getitem__(ds, index) ==
    LET src_line == At(ds.src_seqs, index)
        trg_line == At(ds.trg_seqs, index)
    IN  IF Raised(src_line) THEN src_line
        ELSE IF Raised(trg_line) THEN trg_line
        ELSE LET src_seq == preprocess(src_line.value, ds.src_word2id)
                 trg_seq == preprocess(trg_line.value, ds.trg_word2id)
             IN  IF Raised(src_seq) THEN src_seq
                 ELSE IF Raised(trg_seq) THEN trg_seq
                 ELSE Return(<<src_seq.value, trg_seq.value>>)

__len__(ds) == ds.num_total_seqs

-----------------------------------------------------------------------------
(* parallel_collate_fn                                                     *)

(* merge(sequences): a grid with one row per sequence and as many columns  *)
(* as the longest has values, filled with the global PAD_WORD, each row    *)
(* then overwritten from its start with its sequence; and the lengths.     *)

merge(sequences) ==
    LET lengths == [i \in 1..Len(sequences) |-> Len(sequences[i])]
        width == Max({lengths[i] : i \in 1..Len(sequences)})
    IN  [padded_seqs |-> [i \in 1..Len(sequences) |->
                            [j \in 1..width |->
                               IF j <= lengths[i] THEN ToLong(sequences[i][j]) ELSE PAD_WORD]],
         lengths |-> lengths]

(* data.sort(key=lambda x: len(x[0]), reverse=True): list.sort is stable,  *)
(* also with reverse=True, so pairs of equal source length keep their      *)
(* order.  SortOrder(d)[k] is the position in d of the k-th pair of the    *)
(* sorted list.                                                            *)

(* Variant: the list is not sorted.                                        *)
SortOrderNone(d) == [k \in 1..Len(d) |-> k]

SortOrder(d) ==
    LET key(i) == Len(d[i][1])
        place(i) == Cardinality({j \in 1..Len(d) : key(j) > key(i)})
                    + Cardinality({j \in 1..(i - 1) : key(j) = key(i)}) + 1
    IN  [k \in 1..Len(d) |-> CHOOSE i \in 1..Len(d) : place(i) = k]

Sorted(d) == [k \in 1..Len(d) |-> d[SortOrder(d)[k]]]

(* The target sequences of the sorted list, as the zip call splits them    *)
(* off.                                                                    *)

(* Variant: the targets are sorted again, by their own length.             *)
TargetsByOwnLength(sorted) ==
    LET flipped == [k \in 1..Len(sorted) |-> <<sorted[k][2], sorted[k][1]>>]
    IN  [k \in 1..Len(sorted) |-> Sorted(flipped)[k][1]]

Targets(sorted) == [k \in 1..Len(sorted) |-> sorted[k][2]]

(* The whole function, on the list as sorted in place.  The zip of an     *)
(* empty list has nothing to unpack into the two names: ValueError.        *)
parallel_collate_fn(d) ==
    IF Len(d) = 0 THEN Raise(ValueError)
    ELSE LET sorted == Sorted(d)
             src == merge([k \in 1..Len(sorted) |-> sorted[k][1]])
             trg == merge(Targets(sorted))
         IN  Return([src_seqs |-> src.padded_seqs, src_lengths |-> src.lengths,
                     trg_seqs |-> trg.padded_seqs, trg_lengths |-> trg.lengths])

-----------------------------------------------------------------------------
(* torch.utils.data: the samplers and the DataLoader the factories build.  *)

AssertionError == "AssertionError"

(* The lists torch.randperm(n) can return: the orderings of 0..n-1.        *)
RandpermOutcomes(n) ==
    {p \in [1..n -> 0..(n - 1)] : \A i, j \in 1..n : p[i] = p[j] => i = j}

(* SequentialSampler.__iter__: iter(range(len(data_source))).              *)
Range(n) == [i \in 1..n |-> i - 1]

(* DistributedSampler.__init__ with the defaults shuffle=True, seed=0,     *)
(* drop_last=False: num_samples = ceil(len(dataset) / num_replicas).       *)
DistributedSampler(dataset_len, num_replicas, rank) ==
    LET num_samples == (dataset_len + num_replicas - 1) \div num_replicas
    IN  [kind |-> "DistributedSampler",
         dataset_len |-> dataset_len,
         num_replicas |-> num_replicas,
         rank |-> rank,
         epoch |-> 0,
         seed |-> 0,
         num_samples |-> num_samples,
         total_size |-> num_samples * num_replicas]

SequentialSampler(dataset_len) ==
    [kind |-> "SequentialSampler", dataset_len |-> dataset_len]

(* DistributedSampler.set_epoch                                            *)
set_epoch(s, epoch) == [s EXCEPT !.epoch = epoch]

(* The seed DistributedSampler.__iter__ hands to the generator.            *)
GeneratorSeed(s) == s.seed + s.epoch

(* DistributedSampler.__iter__, given the permutation the seeded generator *)
(* drew: the permutation is padded from its own start up to total_size,    *)
(* and the rank takes every num_replicas-th index from its own offset.     *)
(* When more padding is needed than the permutation is long, torch since   *)
(* 1.6 repeats the permutation; earlier builds append one slice, and the   *)
(* length assertion that follows fails.                                    *)
(* SamplerIndicesNoPadding is the variant that does not pad.               *)
Cycle(perm, k) == [i \in 1..k |-> perm[((i - 1) % Len(perm)) + 1]]

Strided(list, start, step) ==
    [k \in 1..((Len(list) - start + step - 1) \div step) |-> list[start + 1 + (k - 1) * step]]

SamplerIndicesNoPadding(s, perm, legacy) ==
    Return(Strided(perm, s.rank, s.num_replicas))

SamplerIndices(s, perm, legacy) ==
    LET padding_size == s.total_size - Len(perm)
        padded == IF padding_size <= Len(perm)
                  THEN perm \o SubSeq(perm, 1, padding_size)
                  ELSE IF legacy THEN perm \o perm
                  ELSE perm \o Cycle(perm, padding_size)
    IN  IF Len(padded) # s.total_size THEN Raise(AssertionError)
        ELSE Return(Strided(padded, s.rank, s.num_replicas))

(* DataLoader(dataset, batch_size, sampler or shuffle=False, collate_fn):  *)
(* without a sampler and with shuffle=False it builds a SequentialSampler; *)
(* drop_last is False and num_workers is 0.                                *)
DataLoader(dataset, batch_size, smp) ==
    [kind |-> "DataLoader", dataset |-> dataset, batch_size |-> batch_size,
     sampler |-> smp]

(* One step of the loader's iterator on a group of indices, as torch's     *)
(* fetcher does it: collate_fn([dataset[i] for i in group]).  The first    *)
(* item that raises ends the step with its exception.  rows is history:    *)
(* the dataset index behind every row of the batch.                        *)
Fetch(dataset, group) ==
    LET items == [k \in 1..Len(group) |-> __getitem__(dataset, group[k])]
        failed == {k \in 1..Len(group) : Raised(items[k])}
        pairs == [k \in 1..Len(group) |-> items[k].value]
    IN  IF failed # {}
        THEN [group |-> group, result |-> items[Min(failed)], rows |-> <<>>]
        ELSE [group |-> group, result |-> parallel_collate_fn(pairs),
              rows |-> [k \in 1..Len(group) |-> group[SortOrder(pairs)[k]]]]

-----------------------------------------------------------------------------
(* The loader factories.                                                   *)

(* RandomSampler: what DataLoader builds for shuffle=True; every iterator  *)
(* over it draws a permutation of its own.                                 *)
RandomSampler(dataset_len) == [kind |-> "RandomSampler", dataset_len |-> dataset_len]

(* Variant of the validation factory: shuffle=True.                        *)
get_valid_parallel_loaderShuffle(src_text, trg_text, src_word2id, trg_word2id, batch_size) ==
    LET dataset == ParallelDataset(src_text, trg_text, src_word2id, trg_word2id)
        pad == Index(src_word2id, PAD)
    IN  IF Raised(dataset) THEN dataset
        ELSE IF Raised(pad) THEN pad
        ELSE Return([PAD_WORD |-> pad.value,
                     data_loader |->
                        DataLoader(dataset.value, batch_size,
                                   RandomSampler(__len__(dataset.value)))])

(* get_train_parallel_loader: the dataset, the pad id for the global, the  *)
(* sampler and the loader over it.  The caller gets the loader and the     *)
(* sampler, which is the loader's own.                                     *)
get_train_parallel_loader(src_text, trg_text, src_word2id, trg_word2id, batch_size, world_size, rank) ==
    LET dataset == ParallelDataset(src_text, trg_text, src_word2id, trg_word2id)
        pad == Index(src_word2id, PAD)
    IN  IF Raised(dataset) THEN dataset
        ELSE IF Raised(pad) THEN pad
        ELSE Return([PAD_WORD |-> pad.value,
                     data_loader |->
                        DataLoader(dataset.value, batch_size,
                                   DistributedSampler(__len__(dataset.value),
                                                      world_size, rank))])

(* get_valid_parallel_loader: the same without a sampler, shuffle=False.   *)
get_valid_parallel_loader(src_text, trg_text, src_word2id, trg_word2id, batch_size) ==
    LET dataset == ParallelDataset(src_text, trg_text, src_word2id, trg_word2id)
        pad == Index(src_word2id, PAD)
    IN  IF Raised(dataset) THEN dataset
        ELSE IF Raised(pad) THEN pad
        ELSE Return([PAD_WORD |-> pad.value,
                     data_loader |->
                        DataLoader(dataset.value, batch_size,
                                   SequentialSampler(__len__(dataset.value)))])

-----------------------------------------------------------------------------
(* Inputs.                                                                 *)

(* The scenario of the specification: the vocabulary                       *)
(* {<pad>:0, <s>:1, </s>:2, i:3, am:4, fine:5} and the line "i am fine".   *)
ExampleVocab == <<PAD, BOS, EOS, <<"i">>, <<"a", "m">>, <<"f", "i", "n", "e">>>>
ExampleLine == <<"i", " ", "a", "m", " ", "f", "i", "n", "e">>
TabbedLine == <<" ", "i", "\t", " ", "a", "m", " ">>

(* Vocabularies with <pad> at id 0 and at id 3; the second knows no "b".   *)
VocabPadFirst == <<PAD, BOS, EOS, <<"a">>, <<"b">>>>
VocabPadLast == <<BOS, EOS, <<"a">>, PAD>>

Vocabularies == {ExampleVocab, VocabPadFirst, VocabPadLast}
Lines == SeqsUpTo({" ", "a", "b"}, MaxLineLen) \cup {ExampleLine, TabbedLine}

(* Encoded sequences handed to parallel_collate_fn directly.               *)
SourceTensors == {<<5>>, <<6>>, <<5, 6>>, <<6, 5, 5>>}
TargetTensors == {<<7>>, <<8, 7>>, <<7, 7, 8>>}
PadWords == {-1, 0}

Loaders == {"A", "B"}

EncodeIdle == sequence = <<>> /\ word2id = <<>> /\ encoded = NotCalled
CollateIdle == given = <<>> /\ data = <<>> /\ collated = NotCalled
LoaderIdle ==
    /\ loader = [l \in Loaders |-> NoLoader]
    /\ iterator = [l \in Loaders |-> NoIter]
    /\ pass = [l \in Loaders |-> NoPass]
    /\ prevpass = [l \in Loaders |-> NoPass]
    /\ epochCalls = [l \in Loaders |-> 0]
PartitionIdle == sampler = <<>> /\ indices = <<>>

-----------------------------------------------------------------------------
(* preprocess as a function: one call on a line and a vocabulary.          *)

InitEncode ==
    /\ sequence \in Lines
    /\ word2id \in Vocabularies
    /\ encoded = NotCalled
    /\ PAD_WORD = -1
    /\ randperm = <<>>
    /\ torchLegacy = FALSE
    /\ CollateIdle /\ LoaderIdle /\ PartitionIdle

Preprocess ==
    /\ encoded = NotCalled
    /\ encoded' = preprocess(sequence, word2id)
    /\ UNCHANGED <<sequence, word2id, collateVars, PAD_WORD, loaderVars, randperm,
                   torchLegacy, partitionVars>>

NextEncode == Preprocess

SpecEncode == InitEncode /\ [][NextEncode]_vars

-----------------------------------------------------------------------------
(* parallel_collate_fn as a function: one call on a list of pairs, under   *)
(* some value of the global PAD_WORD.                                      *)

InitCollate ==
    /\ data \in SeqsUpTo(SourceTensors \X TargetTensors, MaxBatch)
    /\ given = data
    /\ collated = NotCalled
    /\ PAD_WORD \in PadWords
    /\ randperm = <<>>
    /\ torchLegacy = FALSE
    /\ EncodeIdle /\ LoaderIdle /\ PartitionIdle

Collate ==
    /\ collated = NotCalled
    /\ collated' = parallel_collate_fn(data)
    /\ data' = Sorted(data)
    /\ UNCHANGED <<given, encodeVars, PAD_WORD, loaderVars, randperm, torchLegacy, partitionVars>>

NextCollate == Collate

SpecCollate == InitCollate /\ [][NextCollate]_vars

-----------------------------------------------------------------------------
(* The operations of a process that builds and drives loaders.             *)

(* A file of the given lines, each ended by a line break, the last one     *)
(* only when newline_at_end.                                               *)
RECURSIVE FileText(_, _)
FileText(lines, newline_at_end) ==
    IF lines = <<>> THEN <<>>
    ELSE IF Len(lines) = 1
         THEN Head(lines) \o (IF newline_at_end THEN <<"\n">> ELSE <<>>)
         ELSE Head(lines) \o <<"\n">> \o FileText(Tail(lines), newline_at_end)

FileTexts(lineChoices, n) ==
    {FileText(ls, nl) : ls \in SeqsUpTo(lineChoices, n), nl \in BOOLEAN}

(* data_loader, sampler = get_train_parallel_loader(...)                   *)
BuildTrain(l, src_text, trg_text, src_word2id, trg_word2id, batch_size, world_size, rank) ==
    LET made == get_train_parallel_loader(src_text, trg_text, src_word2id, trg_word2id,
                                          batch_size, world_size, rank)
    IN  /\ loader[l].kind = "NoLoader"
        /\ Returned(made)
        /\ PAD_WORD' = made.value.PAD_WORD
        /\ loader' = [loader EXCEPT ![l] = made.value.data_loader]
        /\ UNCHANGED <<encodeVars, collateVars, iterator, pass, prevpass, epochCalls,
                       randperm, torchLegacy, partitionVars>>

(* data_loader = get_valid_parallel_loader(...)                            *)
BuildValid(l, src_text, trg_text, src_word2id, trg_word2id, batch_size) ==
    LET made == get_valid_parallel_loader(src_text, trg_text, src_word2id, trg_word2id,
                                          batch_size)
    IN  /\ loader[l].kind = "NoLoader"
        /\ Returned(made)
        /\ PAD_WORD' = made.value.PAD_WORD
        /\ loader' = [loader EXCEPT ![l] = made.value.data_loader]
        /\ UNCHANGED <<encodeVars, collateVars, iterator, pass, prevpass, epochCalls,
                       randperm, torchLegacy, partitionVars>>

(* sampler.set_epoch(epoch) on the sampler of a training loader.           *)
SetEpoch(l, epoch) ==
    /\ loader[l].kind = "DataLoader"
    /\ loader[l].sampler.kind = "DistributedSampler"
    /\ epochCalls[l] < MaxEpochCalls
    /\ loader' = [loader EXCEPT ![l].sampler = set_epoch(@, epoch)]
    /\ epochCalls' = [epochCalls EXCEPT ![l] = @ + 1]
    /\ UNCHANGED <<encodeVars, collateVars, PAD_WORD, iterator, pass, prevpass,
                   randperm, torchLegacy, partitionVars>>

(* iter(data_loader): a new iterator; its batch sampler is a generator     *)
(* that has not run yet.  A caller starts one when it has none, or when    *)
(* the one it had is exhausted or has raised.                              *)
LastRaised(ps) == ps.steps # <<>> /\ Raised(ps.steps[Len(ps.steps)].result)

Iter(l) ==
    /\ loader[l].kind = "DataLoader"
    /\ iterator[l].kind = "NoIter" \/ pass[l].done \/ LastRaised(pass[l])
    /\ iterator' = [iterator EXCEPT ![l] = [kind |-> "Iter", started |-> FALSE, rest |-> <<>>]]
    /\ prevpass' = [prevpass EXCEPT ![l] = pass[l]]
    /\ pass' = [pass EXCEPT ![l] = [kind |-> "Pass", stamp |-> -1, steps |-> <<>>,
                                    done |-> FALSE]]
    /\ UNCHANGED <<encodeVars, collateVars, PAD_WORD, loader, epochCalls, randperm,
                   torchLegacy, partitionVars>>

(* The permutations the seeded generator may have drawn for a sampler: the *)
(* one it drew before for this length and seed, when it did.               *)
PermKey(s) == <<s.dataset_len, GeneratorSeed(s)>>

Drawn(s) ==
    IF s.kind = "SequentialSampler" THEN {Range(s.dataset_len)}
    ELSE IF s.kind = "RandomSampler" THEN RandpermOutcomes(s.dataset_len)
    ELSE IF PermKey(s) \in DOMAIN randperm THEN {randperm[PermKey(s)]}
    ELSE RandpermOutcomes(s.dataset_len)

(* list(iter(sampler)) given the permutation drawn.                        *)
SamplerList(s, perm) ==
    IF s.kind = "DistributedSampler" THEN SamplerIndices(s, perm, torchLegacy)
    ELSE Return(perm)

(* next(iterator).  The first call runs the sampler's __iter__; every call *)
(* takes the next batch_size indices (fewer at the end), fetches and       *)
(* collates them, and yields the batch or raises what the fetch raised;    *)
(* with no index left it raises StopIteration.                             *)
NextBatch(l) ==
    /\ iterator[l].kind = "Iter"
    /\ ~pass[l].done
    /\ \E perm \in Drawn(loader[l].sampler) :
         LET ld == loader[l]
             it == iterator[l]
             listed == IF it.started THEN Return(it.rest) ELSE SamplerList(ld.sampler, perm)
             stamp == IF it.started THEN pass[l].stamp ELSE epochCalls[l]
             rest == IF Returned(listed) THEN listed.value ELSE <<>>
             size == IF Len(rest) < ld.batch_size THEN Len(rest) ELSE ld.batch_size
             group == SubSeq(rest, 1, size)
         IN  /\ randperm' = IF ld.sampler.kind = "DistributedSampler" /\ ~it.started
                            THEN (PermKey(ld.sampler) :> perm) @@ randperm
                            ELSE randperm
             /\ iterator' = [iterator EXCEPT ![l] =
                               [kind |-> "Iter", started |-> TRUE,
                                rest |-> SubSeq(rest, size + 1, Len(rest))]]
             /\ pass' = [pass EXCEPT ![l] =
                           IF ~Returned(listed)
                           THEN [@ EXCEPT !.stamp = stamp, !.done = TRUE,
                                          !.steps = Append(@, [group |-> <<>>,
                                                               result |-> listed,
                                                               rows |-> <<>>])]
                           ELSE IF rest = <<>>
                           THEN [@ EXCEPT !.stamp = stamp, !.done = TRUE]
                           ELSE [@ EXCEPT !.stamp = stamp,
                                          !.steps = Append(@, Fetch(ld.dataset, group))]]
    /\ UNCHANGED <<encodeVars, collateVars, PAD_WORD, loader, prevpass, epochCalls,
                   torchLegacy, partitionVars>>

-----------------------------------------------------------------------------
(* The partition of one epoch: the samplers of all ranks of a job over a   *)
(* dataset of some length, after set_epoch with the same epoch on each,    *)
(* and the index list each rank's sampler produces.                        *)

InitPartition ==
    /\ \E n \in 0..MaxDataset, world_size \in 1..MaxWorld, epoch \in 0..MaxEpoch :
         /\ sampler = [rank \in 0..(world_size - 1) |->
                         set_epoch(DistributedSampler(n, world_size, rank), epoch)]
         /\ indices = [rank \in 0..(world_size - 1) |-> NotCalled]
         /\ randperm \in {(<<n, epoch>> :> perm) : perm \in RandpermOutcomes(n)}
    /\ torchLegacy \in BOOLEAN
    /\ PAD_WORD = -1
    /\ EncodeIdle /\ CollateIdle /\ LoaderIdle

IterSampler ==
    \E rank \in DOMAIN sampler :
        /\ indices[rank] = NotCalled
        /\ indices' = [indices EXCEPT ![rank] =
                         SamplerIndices(sampler[rank], randperm[PermKey(sampler[rank])],
                                        torchLegacy)]
        /\ UNCHANGED <<encodeVars, collateVars, PAD_WORD, loaderVars, randperm,
                       torchLegacy, sampler>>

NextPartition == IterSampler

SpecPartition == InitPartition /\ [][NextPartition]_vars

-----------------------------------------------------------------------------
(* A validation loader over any pair of corpus files.                      *)

(* Source files: every file of up to MaxLines lines "a" or "a b".  Target   *)
(* files: the first lines, up to MaxLines, of two corpora, one that        *)
(* alternates "a a" and "a", one that alternates "a" and "b".  The         *)
(* vocabulary VocabPadLast knows no "b".                                   *)
SourceLines == {<<"a">>, <<"a", " ", "b">>}
TargetCorpora ==
    {[i \in 1..MaxLines |-> IF i % 2 = 1 THEN <<"a", " ", "a">> ELSE <<"a">>],
     [i \in 1..MaxLines |-> IF i % 2 = 1 THEN <<"a">> ELSE <<"b">>]}
SourceTexts == FileTexts(SourceLines, MaxLines)
TargetTexts == {FileText(SubSeq(c, 1, k), TRUE) : c \in TargetCorpora, k \in 0..MaxLines}
LoaderVocabs == {VocabPadFirst, VocabPadLast}

InitProcess ==
    /\ PAD_WORD = -1
    /\ randperm = <<>>
    /\ torchLegacy = FALSE
    /\ EncodeIdle /\ CollateIdle /\ LoaderIdle /\ PartitionIdle

ValidBuild ==
    \E src_text \in SourceTexts, trg_text \in TargetTexts,
       src_word2id \in LoaderVocabs, trg_word2id \in LoaderVocabs,
       batch_size \in 1..MaxBatch :
        BuildValid("A", src_text, trg_text, src_word2id, trg_word2id, batch_size)

ValidIter == Iter("A")

ValidNext == NextBatch("A")

NextValid == ValidBuild \/ ValidIter \/ ValidNext

SpecValid == InitProcess /\ [][NextValid]_vars

-----------------------------------------------------------------------------
(* A training loader of one rank, driven over several epochs.              *)

(* Corpus files of up to MaxTrainLines aligned lines: sources alternate    *)
(* "a b" and "a", targets "a" and "a a".                                   *)
TrainSource(n) == FileText([i \in 1..n |-> IF i % 2 = 1 THEN <<"a", " ", "b">> ELSE <<"a">>],
                           TRUE)
TrainTarget(n) == FileText([i \in 1..n |-> IF i % 2 = 1 THEN <<"a">> ELSE <<"a", " ", "a">>],
                           TRUE)

TrainBatchSizes == {1, 2}
TrainWorldSizes == {1, 2}

TrainBuild ==
    \E n \in 0..MaxTrainLines, src_word2id \in LoaderVocabs,
       batch_size \in TrainBatchSizes, world_size \in TrainWorldSizes :
        \E rank \in 0..(world_size - 1) :
            BuildTrain("A", TrainSource(n), TrainTarget(n), src_word2id, VocabPadFirst,
                       batch_size, world_size, rank)

TrainSetEpoch == \E epoch \in 0..MaxEpoch : SetEpoch("A", epoch)

TrainIter == Iter("A")

TrainNext == NextBatch("A")

NextTrain == TrainBuild \/ TrainSetEpoch \/ TrainIter \/ TrainNext

SpecTrain == InitProcess /\ [][NextTrain]_vars

-----------------------------------------------------------------------------
(* A process that builds two loaders, each a training or a validation      *)
(* loader with a source vocabulary of its own, and drives both.  The       *)
(* corpus has the source lines "a", "a a" and the target lines "a a a",    *)
(* "a"; both vocabularies know every token of it.                          *)

CorpusSource == FileText(<<<<"a">>, <<"a", " ", "a">>>>, TRUE)
CorpusTarget == FileText(<<<<"a", " ", "a", " ", "a">>, <<"a">>>>, TRUE)

BuildTrainLoader ==
    \E l \in Loaders, src_word2id \in LoaderVocabs, batch_size \in TrainBatchSizes,
       world_size \in TrainWorldSizes :
        \E rank \in 0..(world_size - 1) :
            BuildTrain(l, CorpusSource, CorpusTarget, src_word2id, VocabPadFirst,
                       batch_size, world_size, rank)

BuildValidLoader ==
    \E l \in Loaders, src_word2id \in LoaderVocabs, batch_size \in TrainBatchSizes :
        BuildValid(l, CorpusSource, CorpusTarget, src_word2id, VocabPadFirst, batch_size)

StartIteration == \E l \in Loaders : Iter(l)

Advance == \E l \in Loaders : NextBatch(l)

Next == BuildTrainLoader \/ BuildValidLoader \/ StartIteration \/ Advance

Spec == InitProcess /\ [][Next]_vars

-----------------------------------------------------------------------------
(* What the properties below speak of, stated without the operators of the *)
(* model: the tokens of a line as its maximal runs of non-whitespace, and  *)
(* the id of a token as its place in the vocabulary.                       *)

InWord(line, i) == i \in 1..Len(line) /\ line[i] \notin Whitespace
WordStarts(line) == {i \in 1..Len(line) : InWord(line, i) /\ ~InWord(line, i - 1)}
WordEnd(line, start) == Min({j \in start..Len(line) : ~InWord(line, j + 1)})
NthOf(S, n) == CHOOSE x \in S : Cardinality({y \in S : y < x}) = n - 1
WordCount(line) == Cardinality(WordStarts(line))
Word(line, n) ==
    LET start == NthOf(WordStarts(line), n) IN SubSeq(line, start, WordEnd(line, start))
Knows(vocab, token) == \E i \in 1..Len(vocab) : vocab[i] = token
IdOf(vocab, token) == CHOOSE id \in 0..(Len(vocab) - 1) : vocab[id + 1] = token
AllKnown(line, vocab) == \A n \in 1..WordCount(line) : Knows(vocab, Word(line, n))

(* The cells of a grid row past the row's true length.                     *)
PadCells(grid, lengths) ==
    UNION {{grid[i][j] : j \in (lengths[i] + 1)..Len(grid[i])} : i \in 1..Len(grid)}

(* The steps of a loader's current iterator that yielded a batch.          *)
Yielded(l) == {k \in 1..Len(pass[l].steps) : Returned(pass[l].steps[k].result)}

(* The ids of a line: <s>, its tokens, </s>.                               *)
IdsOf(line, vocab) ==
    <<IdOf(vocab, BOS)>> \o [n \in 1..WordCount(line) |-> IdOf(vocab, Word(line, n))]
       \o <<IdOf(vocab, EOS)>>

(* A dataset's example at an index: whether both lines are there, whether  *)
(* it has a token its vocabulary lacks, and its two id sequences.          *)
HasLines(ds, index) == index < Len(ds.src_seqs) /\ index < Len(ds.trg_seqs)
HasUnknown(ds, index) ==
    /\ HasLines(ds, index)
    /\ \/ ~AllKnown(ds.src_seqs[index + 1], ds.src_word2id)
       \/ ~AllKnown(ds.trg_seqs[index + 1], ds.trg_word2id)
SourceIds(ds, index) == IdsOf(ds.src_seqs[index + 1], ds.src_word2id)
TargetIds(ds, index) == IdsOf(ds.trg_seqs[index + 1], ds.trg_word2id)

(* A row of a grid is a sequence followed by one pad value.                *)
PaddedRow(row, ids, pad) ==
    \A j \in 1..Len(row) : row[j] = IF j <= Len(ids) THEN ids[j] ELSE pad

(* A batch holds the examples at the indices rows, row by row, in grids as *)
(* wide as the longest sequence of each, padded with pad.                  *)
BatchOf(batch, ds, rows, pad) ==
    /\ Len(batch.src_seqs) = Len(rows) /\ Len(batch.trg_seqs) = Len(rows)
    /\ Len(batch.src_lengths) = Len(rows) /\ Len(batch.trg_lengths) = Len(rows)
    /\ \A i \in 1..Len(rows) :
         /\ batch.src_lengths[i] = Len(SourceIds(ds, rows[i]))
         /\ batch.trg_lengths[i] = Len(TargetIds(ds, rows[i]))
         /\ Len(batch.src_seqs[i]) = Max({Len(SourceIds(ds, rows[k])) : k \in 1..Len(rows)})
         /\ Len(batch.trg_seqs[i]) = Max({Len(TargetIds(ds, rows[k])) : k \in 1..Len(rows)})
         /\ PaddedRow(batch.src_seqs[i], SourceIds(ds, rows[i]), pad)
         /\ PaddedRow(batch.trg_seqs[i], TargetIds(ds, rows[i]), pad)

-----------------------------------------------------------------------------
(* Properties of preprocess (SpecEncode).                                  *)

(* C4: for a line whose tokens are all in the vocabulary, the empty line   *)
(* included, preprocess returns token count + 2 ids: the id of <s>, the    *)
(* ids of the tokens in the line's order, the id of </s>; with the example *)
(* vocabulary the line "i am fine" encodes to [1, 3, 4, 5, 2].             *)
C4_EncodeBracketsTokenIds ==
    (encoded # NotCalled /\ AllKnown(sequence, word2id)) =>
        /\ Returned(encoded)
        /\ Len(encoded.value) = WordCount(sequence) + 2
        /\ encoded.value[1] = IdOf(word2id, BOS)
        /\ encoded.value[Len(encoded.value)] = IdOf(word2id, EOS)
        /\ \A n \in 1..WordCount(sequence) :
             encoded.value[n + 1] = IdOf(word2id, Word(sequence, n))
        /\ (sequence = ExampleLine /\ word2id = ExampleVocab) =>
             encoded.value = <<1, 3, 4, 5, 2>>

C4_Witness ==
    /\ sequence = ExampleLine
    /\ word2id = ExampleVocab
    /\ Returned(encoded)
    /\ Len(encoded.value) = 5

-----------------------------------------------------------------------------
(* Properties of parallel_collate_fn (SpecCollate).                        *)

(* C2: the rows of a returned batch are in descending order of true source *)
(* length, whatever the order of the list handed in: src_lengths never     *)
(* rises from a row to a later one, and src_lengths[i] is the length of    *)
(* the source sequence in row i.                                           *)
C2_RowsSortedBySourceLength ==
    Returned(collated) =>
        /\ \A i, j \in 1..Len(collated.value.src_lengths) :
             i < j => collated.value.src_lengths[i] >= collated.value.src_lengths[j]
        /\ \A i \in 1..Len(collated.value.src_lengths) :
             /\ collated.value.src_lengths[i] <= Len(collated.value.src_seqs[i])
             /\ \E k \in 1..Len(given) :
                  SubSeq(collated.value.src_seqs[i], 1, collated.value.src_lengths[i])
                     = given[k][1]

C2_Witness ==
    /\ Returned(collated)
    /\ \E i, j \in 1..Len(given) : i < j /\ Len(given[i][1]) < Len(given[j][1])
    /\ \E i \in 1..Len(given) : collated.value.src_lengths[i] > collated.value.src_lengths[Len(given)]

(* C3: a returned batch keeps every pair together: there is a one-to-one   *)
(* matching of the rows with the pairs handed in under which row i of the  *)
(* source grid is the pair's source and row i of the target grid, with     *)
(* trg_lengths[i], is the same pair's target; so no pair is dropped or     *)
(* duplicated, and the targets are not sorted by their own length.         *)
C3_PairsStayTogether ==
    Returned(collated) =>
        /\ Len(collated.value.src_seqs) = Len(given)
        /\ Len(collated.value.trg_seqs) = Len(given)
        /\ \E match \in Permutations(1..Len(given)) :
             \A i \in 1..Len(given) :
                /\ SubSeq(collated.value.src_seqs[i], 1, collated.value.src_lengths[i])
                     = given[match[i]][1]
                /\ SubSeq(collated.value.trg_seqs[i], 1, collated.value.trg_lengths[i])
                     = given[match[i]][2]

C3_Witness ==
    /\ Returned(collated)
    /\ \E i, j \in 1..Len(given) :
         /\ i < j
         /\ collated.value.src_lengths[i] > collated.value.src_lengths[j]
         /\ collated.value.trg_lengths[i] < collated.value.trg_lengths[j]

-----------------------------------------------------------------------------
(* Properties of the distributed partition (SpecPartition).                *)

Ranks == DOMAIN sampler
AllListed == Ranks # {} /\ \A rank \in Ranks : Returned(indices[rank])
IndexSet(rank) == {indices[rank].value[k] : k \in 1..Len(indices[rank].value)}
DatasetLen == sampler[0].dataset_len
WorldSize == sampler[0].num_replicas

-----------------------------------------------------------------------------
(* Properties of the validation loader (SpecValid).                        *)

Valid == loader["A"]
ValidPass == pass["A"]
ValidLen == Valid.dataset.num_total_seqs
BatchCount(n, b) == (n + b - 1) \div b

(* The indices of the k-th group of b out of 0..n-1.                       *)
GroupOf(k, n, b) ==
    [i \in 1..(IF k * b <= n THEN b ELSE n - (k - 1) * b) |-> (k - 1) * b + i - 1]

(* C5, as claimed: a pass of the validation loader over n examples with    *)
(* batch size b yields ceil(n/b) batches, all of size b but a possibly     *)
(* smaller last one, and delivers the examples in index order 0..n-1.      *)
C5_ValidDeliversInIndexOrder ==
    (ValidPass.done /\ Yielded("A") = 1..Len(ValidPass.steps)) =>
        /\ Len(ValidPass.steps) = BatchCount(ValidLen, Valid.batch_size)
        /\ \A k \in 1..Len(ValidPass.steps) :
             Len(ValidPass.steps[k].result.value.src_seqs)
                = Len(GroupOf(k, ValidLen, Valid.batch_size))
        /\ Concat([k \in 1..Len(ValidPass.steps) |-> ValidPass.steps[k].rows])
             = Range(ValidLen)

(* C5, amended: the validation loader takes the indices 0..n-1 in order,   *)
(* in ceil(n/b) groups of b (the last possibly smaller), each index once;  *)
(* the batch of a group holds exactly the examples of that group, its rows *)
(* in descending order of source length, examples of equal source length   *)
(* in index order - not in index order throughout.                         *)
C5_ValidGroupsInOrderRowsByLength ==
    /\ ValidPass.done => Len(ValidPass.steps) = BatchCount(ValidLen, Valid.batch_size)
    /\ \A k \in 1..Len(ValidPass.steps) :
         LET step == ValidPass.steps[k]
             ds == Valid.dataset
             length(index) == WordCount(ds.src_seqs[index + 1]) + 2
         IN  /\ step.group = GroupOf(k, ValidLen, Valid.batch_size)
             /\ step.group # <<>>
             /\ Returned(step.result) =>
                  /\ Len(step.rows) = Len(step.group)
                  /\ {step.rows[i] : i \in 1..Len(step.rows)}
                       = {step.group[i] : i \in 1..Len(step.group)}
                  /\ BatchOf(step.result.value, ds, step.rows, PAD_WORD)
                  /\ \A i, j \in 1..Len(step.rows) :
                       i < j => \/ length(step.rows[i]) > length(step.rows[j])
                                \/ /\ length(step.rows[i]) = length(step.rows[j])
                                   /\ step.rows[i] < step.rows[j]

C5_Witness ==
    /\ ValidPass.done
    /\ Len(ValidPass.steps) >= 2
    /\ Yielded("A") = 1..Len(ValidPass.steps)
    /\ ValidLen % Valid.batch_size # 0
    /\ \E k \in 1..Len(ValidPass.steps) : ValidPass.steps[k].rows # ValidPass.steps[k].group

(* C7: a Paired Dataset is never constructed from a source file and a      *)
(* target file with different line counts: construction fails instead.     *)
C7_MismatchedFilesRejected ==
    Valid.kind = "DataLoader" => Len(Valid.dataset.src_seqs) = Len(Valid.dataset.trg_seqs)

-----------------------------------------------------------------------------
(* Properties of the passes over a training loader (Spec, SpecTrain).      *)

Training(l) ==
    loader[l].kind = "DataLoader" /\ loader[l].sampler.kind = "DistributedSampler"

(* Two passes over loader l, each run to its end, with no set_epoch call   *)
(* between the start of the one and the start of the next.                 *)
Repeated(l) ==
    /\ Training(l)
    /\ prevpass[l].done /\ pass[l].done
    /\ prevpass[l].stamp = pass[l].stamp

(* C9: two passes over a training loader, each run to its end, with no     *)
(* set_epoch call between the start of the one and the start of the next,  *)
(* deliver the same indices in the same order and the same batches.        *)
C9_SameOrderWithoutSetEpoch ==
    \A l \in Loaders : Repeated(l) => pass[l].steps = prevpass[l].steps

(* What holds of the two passes in every process: the same groups of       *)
(* indices in the same order, the same rows in every batch, and batches    *)
(* that are equal cell by cell outside the padding.                        *)
SameIndicesWithoutSetEpoch ==
    \A l \in Loaders : Repeated(l) =>
        /\ Len(pass[l].steps) = Len(prevpass[l].steps)
        /\ \A k \in 1..Len(pass[l].steps) :
             LET now == pass[l].steps[k]
                 before == prevpass[l].steps[k]
             IN  /\ now.group = before.group
                 /\ now.rows = before.rows
                 /\ now.result.exc = before.result.exc
                 /\ Returned(now.result) =>
                      /\ now.result.value.src_lengths = before.result.value.src_lengths
                      /\ now.result.value.trg_lengths = before.result.value.trg_lengths
                      /\ \A i \in 1..Len(now.rows) :
                           /\ \A c \in 1..now.result.value.src_lengths[i] :
                                now.result.value.src_seqs[i][c]
                                   = before.result.value.src_seqs[i][c]
                           /\ \A c \in 1..now.result.value.trg_lengths[i] :
                                now.result.value.trg_seqs[i][c]
                                   = before.result.value.trg_seqs[i][c]

RepeatedShuffled ==
    /\ Repeated("A")
    /\ pass["A"].stamp > 0
    /\ Len(pass["A"].steps) >= 2
    /\ pass["A"].steps[1].group[1] # 0

-----------------------------------------------------------------------------
(* Properties of a process with several loaders (Spec).                    *)

(* C1: every batch a loader yields has one row per pair in both grids,     *)
(* each grid as wide as the longest sequence of its own group, every row   *)
(* the ids of its sequence in order followed by the pad id the loader      *)
(* resolved from its source vocabulary, and the true lengths beside them.  *)
C1_BatchPaddedWithLoadersPadId ==
    \A l \in Loaders : \A k \in Yielded(l) :
        BatchOf(pass[l].steps[k].result.value, loader[l].dataset, pass[l].steps[k].rows,
                loader[l].dataset.pad_index)

(* C10: for any interleaving of loader constructions and batch assemblies  *)
(* in one process, the padding of every batch a loader yields is the <pad> *)
(* id of the source vocabulary that loader was constructed with.           *)
C10_PadIdFixedPerLoader ==
    \A l \in Loaders : \A k \in Yielded(l) :
        LET batch == pass[l].steps[k].result.value
        IN  PadCells(batch.src_seqs, batch.src_lengths)
               \cup PadCells(batch.trg_seqs, batch.trg_lengths)
                  \subseteq {Index(loader[l].dataset.src_word2id, PAD).value}

=============================================================================
